---- MODULE Spec2Model ----
(***************************************************************************)
(* A model of get-govc.py: the release lister, the version selector, the   *)
(* existing-install checker, the downloader, the extractor/installer and   *)
(* the verifier, run as the stages of main().                              *)
(*                                                                         *)
(* A string is a sequence of one-character strings, so that lower(),       *)
(* lstrip("v"), split(".") and isdigit() are computed and not assumed.     *)
(***************************************************************************)
EXTENDS Integers, Sequences, FiniteSets, TLC

\* ------------------------------------------------------------------ bounds
\* Longest version string of the pure-function specifications.
MaxLen == 3
\* Most keys of a release mapping in SpecVer; most assets of a feed in Spec.
MaxKeys == 2
\* Most 8 KiB chunks a download delivers.
MaxChunks == 2
\* Most invocations of the program on one filesystem.
MaxRuns == 2

\* ----------------------------------------------------------------- strings
\* The characters of the version strings: a digit is a digit, "." separates,
\* "v" leads or stands for any letter, "V" is a letter lower() changes.
Chars == {"v", ".", "1", "2"}
CharsUpper == Chars \cup {"V"}
Digits == {"1", "2"}

RECURSIVE StrsOfLen(_, _)
StrsOfLen(C, n) ==
  IF n = 0 THEN {<<>>}
  ELSE {Append(s, c) : s \in StrsOfLen(C, n - 1), c \in C}

\* Every string over C of length 0..n.
Strs(C, n) == UNION {StrsOfLen(C, k) : k \in 0..n}

\* The value of args.ver when -v is not given.
LATEST == <<"latest">>

\* Python's None.
None == <<"None">>

\* str.lower()
lower(s) == [i \in 1..Len(s) |-> IF s[i] = "V" THEN "v" ELSE s[i]]

\* str.lstrip("v"): every leading "v" is removed, not only the first.
RECURSIVE lstrip_v(_)
lstrip_v(s) ==
  IF s # <<>> /\ Head(s) = "v" THEN lstrip_v(Tail(s)) ELSE s

\* str.split("."): "" gives [""], "1." gives ["1", ""].
RECURSIVE split_dot(_)
split_dot(s) ==
  IF \A i \in 1..Len(s) : s[i] # "."
  THEN <<s>>
  ELSE LET i == CHOOSE j \in 1..Len(s) :
                  s[j] = "." /\ \A k \in 1..(j - 1) : s[k] # "."
       IN <<SubSeq(s, 1, i - 1)>> \o split_dot(SubSeq(s, i + 1, Len(s)))

\* str.isdigit(): false for the empty string.
isdigit(s) == s # <<>> /\ \A i \in 1..Len(s) : s[i] \in Digits

DigitVal(c) == IF c = "1" THEN 1 ELSE 2

\* int(part) of an all-digit part.
RECURSIVE int(_)
int(s) ==
  IF s = <<>> THEN 0
  ELSE 10 * int(SubSeq(s, 1, Len(s) - 1)) + DigitVal(s[Len(s)])

\* One element of a version key: an int or a str.
IntPart(n) == [t |-> "int", n |-> n, s |-> <<>>]
StrPart(s) == [t |-> "str", n |-> 0, s |-> s]

\* version_key(version): lower, strip the leading "v", split on ".", all-digit
\* parts become ints.
version_key(version) ==
  LET parts == split_dot(lstrip_v(lower(version)))
  IN [i \in 1..Len(parts) |->
        IF isdigit(parts[i]) THEN IntPart(int(parts[i])) ELSE StrPart(parts[i])]

\* Code points of the characters, for str < str.
Ord(c) ==
  CASE c = "." -> 46
    [] c = "1" -> 49
    [] c = "2" -> 50
    [] c = "V" -> 86
    [] c = "v" -> 118

\* str < str
RECURSIVE StrLt(_, _)
StrLt(a, b) ==
  IF b = <<>> THEN FALSE
  ELSE IF a = <<>> THEN TRUE
  ELSE IF Head(a) # Head(b) THEN Ord(Head(a)) < Ord(Head(b))
  ELSE StrLt(Tail(a), Tail(b))

\* list < list as Python evaluates it: the first pair of unequal elements
\* decides; int against str raises TypeError; a proper prefix is smaller.
\* The result is "lt", "ge" or "TypeError".
RECURSIVE ListLt(_, _)
ListLt(a, b) ==
  IF b = <<>> THEN "ge"
  ELSE IF a = <<>> THEN "lt"
  ELSE LET x == Head(a)
           y == Head(b)
       IN IF x = y THEN ListLt(Tail(a), Tail(b))
          ELSE IF x.t # y.t THEN "TypeError"
          ELSE IF x.t = "int" THEN (IF x.n < y.n THEN "lt" ELSE "ge")
          ELSE (IF StrLt(x.s, y.s) THEN "lt" ELSE "ge")

\* What a sort that raised leaves behind.
TypeError == [ok |-> FALSE, val |-> <<>>]
Ok(v) == [ok |-> TRUE, val |-> v]

\* One step of a stable insertion sort over (value, key) pairs: x goes after
\* the last pair of the sorted prefix whose key is not greater than its own.
RECURSIVE Insert(_, _)
Insert(done, x) ==
  IF ~done.ok THEN TypeError
  ELSE IF done.val = <<>> THEN Ok(<<x>>)
  ELSE LET last == done.val[Len(done.val)]
           r == ListLt(x.key, last.key)
       IN IF r = "TypeError" THEN TypeError
          ELSE IF r = "ge" THEN Ok(Append(done.val, x))
          ELSE LET rest == Insert(Ok(SubSeq(done.val, 1, Len(done.val) - 1)), x)
               IN IF ~rest.ok THEN TypeError
                  ELSE Ok(Append(rest.val, last))

RECURSIVE SortPairs(_)
SortPairs(pairs) ==
  IF pairs = <<>> THEN Ok(<<>>)
  ELSE Insert(SortPairs(SubSeq(pairs, 1, Len(pairs) - 1)), pairs[Len(pairs)])

\* sorted(keys, key=version_key): the keys are computed first, the sort is
\* stable and ascending, and it raises TypeError when a comparison it makes
\* is between an int and a str.
sorted(keys) ==
  LET pairs == [i \in 1..Len(keys) |->
                  [val |-> keys[i], key |-> version_key(keys[i])]]
      res == SortPairs(pairs)
  IN IF ~res.ok THEN TypeError
     ELSE Ok([i \in 1..Len(res.val) |-> res.val[i].val])

\* ------------------------------------------------------- version selector
\* The outcome of lines 135-141: the selected key, "no suitable release"
\* (what = "none") or an exception that nothing catches (what = "raise").
Selected(v) == [what |-> "ok", version |-> v]
NoSuitable == [what |-> "none", version |-> None]
SelectRaised == [what |-> "raise", version |-> None]

\* sorted(asset_map.keys(), key=version_key)[-1]
select_latest(keys) ==
  LET s == sorted(keys)
  IN IF ~s.ok THEN SelectRaised ELSE Selected(s.val[Len(s.val)])

\* v == args.ver or v.lstrip("v") == args.ver.lstrip("v")
token_matches(v, ver) == v = ver \/ lstrip_v(v) = lstrip_v(ver)

\* next((v for v in asset_map if ...), None), then "if not version": the
\* first key in insertion order that matches; None and "" are both falsy.
select_explicit(keys, ver) ==
  LET hits == {i \in 1..Len(keys) : token_matches(keys[i], ver)}
  IN IF hits = {} THEN NoSuitable
     ELSE LET i == CHOOSE j \in hits : \A k \in hits : j <= k
          IN IF keys[i] = <<>> THEN NoSuitable ELSE Selected(keys[i])

select_version(keys, ver) ==
  IF ver = LATEST THEN select_latest(keys) ELSE select_explicit(keys, ver)

\* ----------------------------------------------------------- release feed
DEFAULT_FILENAME == "govc_Linux_x86_64.tar.gz"
DEFAULT_BIN_NAME == "govc"

\* The tags of the feeds of Spec; a tag is never empty.
Tags == {<<"v", "1">>, <<"2">>}

\* One asset of the feed. Its download URL is .../download/<tag>/<name>, so
\* the version the lister cuts out of the URL is the tag.
Assets ==
  {[name |-> DEFAULT_FILENAME, tag |-> t] : t \in Tags}
    \cup {[name |-> "govc_Darwin_arm64.tar.gz", tag |-> <<"2">>]}

RECURSIVE SeqsUpTo(_, _)
SeqsUpTo(S, n) ==
  IF n = 0 THEN {<<>>}
  ELSE LET shorter == SeqsUpTo(S, n - 1)
       IN shorter \cup {Append(q, x) : q \in shorter, x \in S}

Range(q) == {q[i] : i \in 1..Len(q)}

\* Sequences without a repeated element: the key lists a dict can have.
DistinctSeqs(S, n) == {q \in SeqsUpTo(S, n) : Cardinality(Range(q)) = Len(q)}

\* The lister without the test of the asset name.
RECURSIVE get_release_assets_any_name(_)
get_release_assets_any_name(releases) ==
  IF releases = <<>> THEN <<>>
  ELSE LET rest == get_release_assets_any_name(SubSeq(releases, 1, Len(releases) - 1))
           asset == releases[Len(releases)]
       IN IF asset.tag \notin Range(rest) THEN Append(rest, asset.tag) ELSE rest

\* get_release_assets(): the keys of asset_map in insertion order. A later
\* asset of the same version overwrites the URL and leaves the key in place.
RECURSIVE get_release_assets(_)
get_release_assets(releases) ==
  IF releases = <<>> THEN <<>>
  ELSE LET rest == get_release_assets(SubSeq(releases, 1, Len(releases) - 1))
           asset == releases[Len(releases)]
       IN IF asset.name = DEFAULT_FILENAME /\ asset.tag \notin Range(rest)
          THEN Append(rest, asset.tag)
          ELSE rest

\* -------------------------------------------------------------- filesystem
\* A file of the destination directory: absent, a file without the execute
\* bit, or an executable with what it does when run with "version".
Absent == [kind |-> "absent", beh |-> "-", rep |-> <<>>]
NoExec == [kind |-> "noexec", beh |-> "-", rep |-> <<>>]
Reporting(r) == [kind |-> "exec", beh |-> "report", rep |-> r]
ExitsNonZero == [kind |-> "exec", beh |-> "exitfail", rep |-> <<>>]
Undecodable == [kind |-> "exec", beh |-> "undecodable", rep |-> <<>>]

\* What a binary prints after "govc ".
Reports == {<<"1">>, <<"v", "1">>, <<"2">>}

\* The binaries an archive can hold, with the mode bits the archive gives.
Binaries ==
  {[kind |-> k, beh |-> "report", rep |-> r] : k \in {"exec", "noexec"}, r \in Reports}
    \cup {ExitsNonZero, Undecodable}

\* The entries of <dir> the model follows: <dir>/govc, <dir>/alt (the name
\* of "-n alt") and <dir>/sub/govc.
Paths == {"govc", "alt", "sub/govc"}
Names == {DEFAULT_BIN_NAME, "alt"}

\* subprocess.check_output([bin_path, "version"]): the exception it raises,
\* or the bytes of the output.
check_output(file) ==
  IF file.kind = "absent" THEN [status |-> "FileNotFoundError", out |-> <<>>]
  ELSE IF file.kind = "noexec" THEN [status |-> "PermissionError", out |-> <<>>]
  ELSE IF file.beh = "exitfail" THEN [status |-> "CalledProcessError", out |-> <<>>]
  ELSE IF file.beh = "undecodable" THEN [status |-> "bad_bytes", out |-> <<>>]
  ELSE [status |-> "bytes", out |-> <<<<"govc">>, file.rep>>]

\* output.split(" ")[-1]
last_token(out) == out[Len(out)]

\* os.path.exists(os.path.join(dir, name))
path_exists(f, path) == f.dir = "dir" /\ f.files[path].kind # "absent"

\* The checker comparing with the target as given, "v" included.
check_existing_govc_nostrip(f, path, target_version) ==
  IF ~path_exists(f, path) THEN "False"
  ELSE LET r == check_output(f.files[path])
       IN IF r.status \in {"CalledProcessError", "FileNotFoundError"} THEN "False"
          ELSE IF r.status = "PermissionError" THEN "PermissionError"
          ELSE IF r.status = "bad_bytes" THEN "UnicodeDecodeError"
          ELSE IF last_token(r.out) = target_version THEN "True" ELSE "False"

\* The checker never finding the target installed.
check_existing_govc_never(f, path, target_version) ==
  IF ~path_exists(f, path) THEN "False"
  ELSE LET r == check_output(f.files[path])
       IN IF r.status = "PermissionError" THEN "PermissionError"
          ELSE IF r.status = "bad_bytes" THEN "UnicodeDecodeError"
          ELSE "False"

\* check_existing_govc(bin_path, target_version): "True", "False", or the
\* exception that leaves it. Only CalledProcessError and FileNotFoundError
\* are caught.
check_existing_govc(f, path, target_version) ==
  IF ~path_exists(f, path) THEN "False"
  ELSE LET r == check_output(f.files[path])
       IN IF r.status \in {"CalledProcessError", "FileNotFoundError"} THEN "False"
          ELSE IF r.status = "PermissionError" THEN "PermissionError"
          ELSE IF r.status = "bad_bytes" THEN "UnicodeDecodeError"
          ELSE IF last_token(r.out) = lstrip_v(target_version) THEN "True"
          ELSE "False"

\* The member lists of the archives: README stands for every member that is
\* not the binary.
MemberLists ==
  { <<>>, <<"README">>, <<"govc">>, <<"README", "govc">>, <<"sub/govc">>,
    <<"sub/govc", "govc">>, <<"govc", "sub/govc">> }

\* os.path.basename(m.name) == "govc"
is_govc(m) == m \in {"govc", "sub/govc"}

\* next((m for m in tar.getmembers() if ...), None)
find_member(members) ==
  LET hits == {i \in 1..Len(members) : is_govc(members[i])}
  IN IF hits = {} THEN "None"
     ELSE members[CHOOSE j \in hits : \A k \in hits : j <= k]

\* tar.extract(member, path=dir_path)
tar_extract(f, member, file) ==
  [f EXCEPT !.files[member] = file,
            !.sub = IF member = "sub/govc" THEN TRUE ELSE @]

\* os.rename(src, dst)
os_rename(f, src, dst) ==
  [f EXCEPT !.files[dst] = f.files[src], !.files[src] = Absent]

\* os.chmod(path, 0o755)
os_chmod(f, path) == [f EXCEPT !.files[path].kind = "exec"]

\* The extractor creating the final path before it looks for the member.
extract_govc_touch_first(f, members, file, bin_name) ==
  LET member == find_member(members)
  IN IF member = "None"
     THEN [ok |-> FALSE, exc |-> "RuntimeError: govc binary not found in tarball.",
           fs |-> [f EXCEPT !.files[bin_name] = NoExec]]
     ELSE LET f1 == tar_extract(f, member, file)
              f2 == IF member # bin_name THEN os_rename(f1, member, bin_name) ELSE f1
          IN [ok |-> TRUE, exc |-> "-", fs |-> os_chmod(f2, bin_name)]

\* extract_govc(tar_path, dir_path, bin_name) on an archive tarfile can read:
\* the filesystem it leaves and whether it raised.
extract_govc(f, members, file, bin_name) ==
  LET member == find_member(members)
  IN IF member = "None"
     THEN [ok |-> FALSE, exc |-> "RuntimeError: govc binary not found in tarball.",
           fs |-> f]
     ELSE LET f1 == tar_extract(f, member, file)
              f2 == IF member # bin_name THEN os_rename(f1, member, bin_name) ELSE f1
          IN [ok |-> TRUE, exc |-> "-", fs |-> os_chmod(f2, bin_name)]

\* The verifier reporting a failure and exiting 0.
run_govc_version_swallow(file, quiet) ==
  LET r == check_output(file)
  IN IF r.status = "bytes" \/ (r.status = "bad_bytes" /\ quiet)
     THEN [ok |-> TRUE, exit |-> 0, marker |-> "-"]
     ELSE [ok |-> FALSE, exit |-> 0, marker |-> "Failed to run"]

\* run_govc_version(bin_path, quiet): every exception is caught, reported
\* and turned into exit status 1; the output is decoded only to print it.
run_govc_version(file, quiet) ==
  LET r == check_output(file)
  IN IF r.status = "bytes" \/ (r.status = "bad_bytes" /\ quiet)
     THEN [ok |-> TRUE, exit |-> 0, marker |-> "-"]
     ELSE [ok |-> FALSE, exit |-> 1, marker |-> "Failed to run"]

\* The cleanup done only for a download that completed.
finally_remove_if_complete(t) == IF t = "complete" THEN "absent" ELSE t

\* The finally clause of main: if os.path.exists(tar_path): os.remove(tar_path)
finally_remove(t) == IF t # "absent" THEN "absent" ELSE t

\* ------------------------------------------------------------------- state
VARIABLES
  pc,          \* the stage main() is at; "done" once the process has exited
  args,        \* parse_args(): ver, name, print, quiet (dir is the one <dir>)
  asset_map,   \* the keys of asset_map, in insertion order
  version,     \* the selected key
  downloaded,  \* chunks written to the temporary file
  exit_code,   \* the exit status, -1 while running
  marker,      \* the error line on stderr, "traceback" for an uncaught exception
  exc,         \* the exception behind it
  feed,        \* the assets the releases endpoint lists
  fs,          \* the destination directory
  tmp,         \* /tmp/govc-<version>.tar.gz: absent, partial, empty or complete
  run,         \* which invocation this is
  fs0,         \* the destination directory when this invocation began
  requested,   \* a download request was issued in this invocation
  res,         \* how each stage of this invocation ended
  prev,        \* what the previous invocation did
  eq           \* the pair of version strings of SpecEq and what was computed

vars ==
  << pc, args, asset_map, version, downloaded, exit_code, marker, exc, feed, fs,
     tmp, run, fs0, requested, res, prev, eq >>

\* The values of -v: "latest", and "1", which the feed may or may not resolve.
Tokens == {LATEST, <<"1">>}

Args ==
  [ver : Tokens, name : Names, print : BOOLEAN, quiet : BOOLEAN]

NoFiles == [p \in Paths |-> Absent]

\* The destination directories an invocation can find.
InitFs ==
  {[dir |-> d, sub |-> FALSE, files |-> NoFiles] : d \in {"absent", "file"}}
    \cup
  {[dir |-> "dir", sub |-> FALSE,
    files |-> [NoFiles EXCEPT !["govc"] = g, !["alt"] = a]] :
      g \in {Absent, NoExec, Reporting(<<"1">>), ExitsNonZero, Undecodable},
      a \in {Absent, Reporting(<<"1">>)}}

NoRes ==
  [fetch |-> "-", print |-> "-", select |-> "-", check |-> "-", mkdir |-> "-",
   download |-> "-", extract |-> "-", verify |-> "-"]

NoPrev == [installed |-> FALSE, version |-> None]
NoEq == [a |-> <<>>, b |-> <<>>, step |-> "-", same_key |-> FALSE,
         token |-> <<>>, sel |-> NoSuitable, reported |-> <<>>, target |-> <<>>,
         match |-> "-"]

Init ==
  /\ pc = "start"
  /\ args \in Args
  /\ asset_map = <<>>
  /\ version = None
  /\ downloaded = 0
  /\ exit_code = -1
  /\ marker = "-"
  /\ exc = "-"
  /\ feed \in SeqsUpTo(Assets, MaxKeys)
  /\ fs \in InitFs
  /\ tmp = "absent"
  /\ run = 1
  /\ fs0 = fs
  /\ requested = FALSE
  /\ res = NoRes
  /\ prev = NoPrev
  /\ eq = NoEq

\* sys.exit(code) with the line printed before it.
Exit(code, m, e) ==
  /\ pc' = "done"
  /\ exit_code' = code
  /\ marker' = m
  /\ exc' = e

\* An exception nothing catches: the interpreter prints the traceback and
\* exits with status 1.
Uncaught(e) == Exit(1, "traceback", e)

Env == << feed, run, fs0, prev, eq, args >>

\* Lines 120-129: the release lister; a transport error, or an empty mapping.
Fetch ==
  /\ pc = "start"
  /\ \/ /\ res' = [res EXCEPT !.fetch = "fail"]
        /\ Exit(1, "Error", "URLError")
        /\ UNCHANGED asset_map
     \/ /\ res' = [res EXCEPT !.fetch = "ok"]
        /\ asset_map' = get_release_assets(feed)
        /\ IF asset_map' = <<>>
           THEN Exit(1, "No govc releases found", "-")
           ELSE /\ pc' = "listed"
                /\ UNCHANGED << exit_code, marker, exc >>
  /\ UNCHANGED << version, downloaded, fs, tmp, requested >>
  /\ UNCHANGED Env

\* Lines 131-133 and print_versions: the sort may raise.
PrintVersions ==
  /\ pc = "listed"
  /\ args.print
  /\ IF sorted(asset_map).ok
     THEN /\ res' = [res EXCEPT !.print = "ok"]
          /\ Exit(0, "-", "-")
     ELSE /\ res' = [res EXCEPT !.print = "raise"]
          /\ Uncaught("TypeError")
  /\ UNCHANGED << asset_map, version, downloaded, fs, tmp, requested >>
  /\ UNCHANGED Env

\* Lines 135-141: the version selector, for the token ver.
SelectStage(ver) ==
  /\ LET s == select_version(asset_map, ver)
     IN /\ version' = s.version
        /\ res' = [res EXCEPT !.select = s.what]
        /\ CASE s.what = "ok" ->
                  /\ pc' = "check"
                  /\ UNCHANGED << exit_code, marker, exc >>
             [] s.what = "none" -> Exit(1, "No suitable govc release found", "-")
             [] s.what = "raise" -> Uncaught("TypeError")
  /\ UNCHANGED << asset_map, downloaded, fs, tmp, requested >>
  /\ UNCHANGED << feed, run, fs0, prev, eq >>

Select ==
  /\ pc = "listed"
  /\ ~args.print
  /\ SelectStage(args.ver)
  /\ UNCHANGED args

\* Lines 143-147: the existing-install checker.
CheckExisting ==
  /\ pc = "check"
  /\ LET c == check_existing_govc(fs, args.name, version)
     IN /\ res' = [res EXCEPT !.check = IF c \in {"True", "False"} THEN c ELSE "raise"]
        /\ CASE c = "True" -> Exit(0, "-", "-")
             [] c = "False" ->
                  /\ pc' = "mkdir"
                  /\ UNCHANGED << exit_code, marker, exc >>
             [] OTHER -> Uncaught(c)
  /\ UNCHANGED << asset_map, version, downloaded, fs, tmp, requested >>
  /\ UNCHANGED Env

\* Lines 149-155: os.makedirs(args.dir, exist_ok=True), outside the try.
MakeDirs ==
  /\ pc = "mkdir"
  /\ IF fs.dir = "file"
     THEN /\ res' = [res EXCEPT !.mkdir = "raise"]
          /\ Uncaught("FileExistsError")
          /\ UNCHANGED fs
     ELSE /\ res' = [res EXCEPT !.mkdir = "ok"]
          /\ fs' = [fs EXCEPT !.dir = "dir"]
          /\ pc' = "download"
          /\ UNCHANGED << exit_code, marker, exc >>
  /\ UNCHANGED << asset_map, version, downloaded, tmp, requested >>
  /\ UNCHANGED Env

\* The except clause of lines 160-162: the line is printed, sys.exit(1) is
\* raised, and the finally clause runs before the process exits.
Caught(e) ==
  /\ pc' = "finally"
  /\ marker' = "Error during download or extraction"
  /\ exc' = e
  /\ UNCHANGED exit_code

\* Lines 53-54: the request is sent; the file is opened once it is answered.
DownloadOpen ==
  /\ pc = "download"
  /\ requested' = TRUE
  /\ \/ /\ res' = [res EXCEPT !.download = "fail"]
        /\ Caught("URLError")
        /\ UNCHANGED tmp
     \/ /\ tmp' = "partial"
        /\ pc' = "reading"
        /\ UNCHANGED << res, exit_code, marker, exc >>
  /\ UNCHANGED << asset_map, version, downloaded, fs >>
  /\ UNCHANGED Env

\* Lines 58-63: one chunk is read and written.
DownloadChunk ==
  /\ pc = "reading"
  /\ downloaded < MaxChunks
  /\ downloaded' = downloaded + 1
  /\ UNCHANGED << pc, asset_map, version, exit_code, marker, exc, fs, tmp,
                  requested, res >>
  /\ UNCHANGED Env

\* Lines 59-61: the empty chunk ends the loop, the file is closed and the
\* function returns (its counter with it). A file no chunk was written to
\* is empty.
DownloadEnd ==
  /\ pc = "reading"
  /\ tmp' = IF downloaded > 0 THEN "complete" ELSE "empty"
  /\ downloaded' = 0
  /\ res' = [res EXCEPT !.download = "ok"]
  /\ pc' = "extract"
  /\ UNCHANGED << asset_map, version, exit_code, marker, exc, fs, requested >>
  /\ UNCHANGED Env

\* Line 59: response.read raises; what was written stays in the file.
DownloadError ==
  /\ pc = "reading"
  /\ res' = [res EXCEPT !.download = "fail"]
  /\ Caught("IncompleteRead")
  /\ UNCHANGED << asset_map, version, downloaded, fs, tmp, requested >>
  /\ UNCHANGED Env

\* Line 159 and extract_govc: the archive is what the server sent, which
\* tarfile may fail to read; an empty file is no archive.
Extract ==
  /\ pc = "extract"
  /\ \/ /\ res' = [res EXCEPT !.extract = "corrupt"]
        /\ Caught("ReadError")
        /\ UNCHANGED fs
     \/ /\ tmp = "complete"
        /\ \E members \in MemberLists, file \in Binaries :
             LET x == extract_govc(fs, members, file, args.name)
             IN /\ fs' = x.fs
                /\ IF x.ok
                   THEN /\ res' = [res EXCEPT !.extract = "ok"]
                        /\ pc' = "finally"
                        /\ UNCHANGED << exit_code, marker, exc >>
                   ELSE /\ res' = [res EXCEPT !.extract = "nomember"]
                        /\ Caught(x.exc)
  /\ UNCHANGED << asset_map, version, downloaded, tmp, requested >>
  /\ UNCHANGED Env

\* Lines 163-165, then the exit the except clause asked for.
Finally ==
  /\ pc = "finally"
  /\ tmp' = finally_remove(tmp)
  /\ IF res.extract = "ok"
     THEN /\ pc' = "verify"
          /\ UNCHANGED exit_code
     ELSE /\ pc' = "done"
          /\ exit_code' = 1
  /\ UNCHANGED << asset_map, version, downloaded, marker, exc, fs, requested, res >>
  /\ UNCHANGED Env

\* Line 167 and run_govc_version: the verifier.
Verify ==
  /\ pc = "verify"
  /\ LET r == run_govc_version(fs.files[args.name], args.quiet)
     IN /\ res' = [res EXCEPT !.verify = IF r.ok THEN "ok" ELSE "fail"]
        /\ Exit(r.exit, r.marker, IF r.ok THEN "-" ELSE "Exception")
  /\ UNCHANGED << asset_map, version, downloaded, fs, tmp, requested >>
  /\ UNCHANGED Env

\* The program is invoked again with the same arguments, on the filesystem
\* the last invocation left and against the same releases.
Rerun ==
  /\ pc = "done"
  /\ run < MaxRuns
  /\ run' = run + 1
  /\ pc' = "start"
  /\ asset_map' = <<>>
  /\ version' = None
  /\ downloaded' = 0
  /\ exit_code' = -1
  /\ marker' = "-"
  /\ exc' = "-"
  /\ requested' = FALSE
  /\ res' = NoRes
  /\ fs0' = fs
  /\ prev' = [installed |-> exit_code = 0 /\
                              (res.extract = "ok" \/ (prev.installed /\ res.check = "True")),
              version |-> version]
  /\ UNCHANGED << args, feed, fs, tmp, eq >>

Next ==
  \/ Fetch
  \/ PrintVersions
  \/ Select
  \/ CheckExisting
  \/ MakeDirs
  \/ DownloadOpen
  \/ DownloadChunk
  \/ DownloadEnd
  \/ DownloadError
  \/ Extract
  \/ Finally
  \/ Verify
  \/ Rerun

Spec == Init /\ [][Next]_vars

\* ------------------------------------------- the selector on its own
\* The selector applied to every release mapping of up to MaxKeys keys over
\* the version strings of up to MaxLen characters, and to every token.
Versions == Strs(Chars, MaxLen) \ {<<>>}

InitVer ==
  /\ pc = "listed"
  /\ args = [ver |-> None, name |-> DEFAULT_BIN_NAME, print |-> FALSE, quiet |-> FALSE]
  /\ asset_map \in DistinctSeqs(Versions, MaxKeys) \ {<<>>}
  /\ version = None
  /\ downloaded = 0
  /\ exit_code = -1
  /\ marker = "-"
  /\ exc = "-"
  /\ feed = <<>>
  /\ fs = [dir |-> "absent", sub |-> FALSE, files |-> NoFiles]
  /\ tmp = "absent"
  /\ run = 1
  /\ fs0 = fs
  /\ requested = FALSE
  /\ res = [NoRes EXCEPT !.fetch = "ok"]
  /\ prev = NoPrev
  /\ eq = NoEq

SelectAny ==
  /\ pc = "listed"
  /\ args.ver = None
  /\ \E ver \in Strs(Chars, MaxLen) \cup {LATEST} :
       /\ args' = [args EXCEPT !.ver = ver]
       /\ SelectStage(ver)

NextVer == SelectAny

SpecVer == InitVer /\ [][NextVer]_vars

\* ------------------------- two strings that differ by a leading "v"
\* eq.b is eq.a with one more leading "v". The key, the selector and the
\* checker are applied to the pair, each way round.
InitEq ==
  /\ pc = "eq"
  /\ args = [ver |-> None, name |-> DEFAULT_BIN_NAME, print |-> FALSE, quiet |-> FALSE]
  /\ asset_map = <<>>
  /\ version = None
  /\ downloaded = 0
  /\ exit_code = -1
  /\ marker = "-"
  /\ exc = "-"
  /\ feed = <<>>
  /\ fs = [dir |-> "dir", sub |-> FALSE, files |-> NoFiles]
  /\ tmp = "absent"
  /\ run = 1
  /\ fs0 = fs
  /\ requested = FALSE
  /\ res = NoRes
  /\ prev = NoPrev
  /\ \E a \in Strs(CharsUpper, MaxLen) \ {<<>>} :
       eq = [NoEq EXCEPT !.a = a, !.b = <<"v">> \o a, !.step = "start"]

EqFrame ==
  UNCHANGED << pc, args, version, downloaded, exit_code, marker, exc, feed, tmp,
               run, fs0, requested, res, prev >>

\* version_key of both strings.
EqKey ==
  /\ eq.step = "start"
  /\ eq' = [eq EXCEPT !.step = "key",
                      !.same_key = (version_key(eq.a) = version_key(eq.b))]
  /\ UNCHANGED << asset_map, fs >>
  /\ EqFrame

\* One string is the token and the other a key of the mapping, alone or next
\* to another key.
EqSelect ==
  /\ eq.step = "key"
  /\ \E p \in {<<eq.a, eq.b>>, <<eq.b, eq.a>>} :
       \E keys \in {<<p[2]>>} \cup {<<k, p[2]>> : k \in Tags \ {p[2]}}
                      \cup {<<p[2], k>> : k \in Tags \ {p[2]}} :
         /\ asset_map' = keys
         /\ eq' = [eq EXCEPT !.step = "sel", !.token = p[1],
                             !.sel = select_version(keys, p[1])]
  /\ UNCHANGED fs
  /\ EqFrame

\* The installed binary reports one string and the other is the target.
EqCheck ==
  /\ eq.step = "sel"
  /\ \E p \in {<<eq.a, eq.b>>, <<eq.b, eq.a>>} :
       /\ fs' = [fs EXCEPT !.files[DEFAULT_BIN_NAME] = Reporting(p[1])]
       /\ eq' = [eq EXCEPT !.step = "chk", !.reported = p[1], !.target = p[2],
                           !.match = check_existing_govc(fs', DEFAULT_BIN_NAME, p[2])]
  /\ UNCHANGED asset_map
  /\ EqFrame

NextEq ==
  \/ EqKey
  \/ EqSelect
  \/ EqCheck

SpecEq == InitEq /\ [][NextEq]_vars

\* ------------------------------------------------------------------ claims
Done == pc = "done"

\* The orders the keys of a mapping can have been inserted in.
Perms(q) == {r \in DistinctSeqs(Range(q), Len(q)) : Len(r) = Len(q)}

\* C1: a run that reached the download stage (the directory was made and
\* the try block entered) ends with the temporary archive absent, whether
\* the download failed, the extraction failed or both succeeded; and the
\* verifier only ever runs with the archive already removed.
C1_TempFileRemoved ==
  /\ (Done /\ res.mkdir = "ok") => tmp = "absent"
  /\ pc = "verify" => tmp = "absent"

\* C1 witness: a download that failed after a chunk was written has ended,
\* and the partial file is gone.
C1_Witness ==
  Done /\ res.download = "fail" /\ downloaded > 0 /\ tmp = "absent"

\* C2: for "latest" the selector always produces a key, the key is a maximum
\* under version_key, and every insertion order of the same keys gives the
\* same key.
C2_LatestIsOrderIndependentMax ==
  (pc # "listed" /\ args.ver = LATEST) =>
    /\ res.select = "ok"
    /\ \A k \in Range(asset_map) :
         ListLt(version_key(version), version_key(k)) = "ge"
    /\ \A q \in Perms(asset_map) : select_latest(q) = Selected(version)

\* C3: for an explicit token, a key equal to the token is the one selected
\* whenever the mapping has it; a key equal only after the leading "v" is
\* stripped is selected when no key equals the token.
C3_ExactMatchFirst ==
  (pc # "listed" /\ args.ver # LATEST) =>
    /\ args.ver \in Range(asset_map) => version = args.ver
    /\ (\E k \in Range(asset_map) : lstrip_v(k) = lstrip_v(args.ver)) =>
         (res.select = "ok" /\ lstrip_v(version) = lstrip_v(args.ver))

\* What C4 says of the key and of the selector: the two strings have the
\* same version_key, and with one as the token and the other in the mapping
\* a key is selected that equals the token up to the leading "v".
EqKeyAndSelector ==
  /\ eq.step \in {"key", "sel", "chk"} => eq.same_key
  /\ eq.step \in {"sel", "chk"} =>
       /\ eq.sel.what = "ok"
       /\ lstrip_v(eq.sel.version) = lstrip_v(eq.token)

\* C4 as claimed: two strings that differ only by a leading "v" have the same
\* version_key, one as the token matches the other as a key, and the checker
\* reports a match when the binary reports one and the target is the other.
C4_LeadingVIgnoredEverywhere ==
  /\ EqKeyAndSelector
  /\ eq.step = "chk" => eq.match = "True"

\* C4 as amended: the key and the selector ignore the leading "v"; the
\* checker strips it from the target only, so it reports a match exactly
\* when the binary reports the string without the leading "v" and that
\* string has no "v" in front left.
C4_LeadingVIgnoredExceptReported ==
  /\ EqKeyAndSelector
  /\ eq.step = "chk" =>
       (eq.match = "True" <=> (eq.reported = eq.a /\ Head(eq.a) # "v"))

\* C4 witness: the binary reports the string without the "v", the target
\* has it, and the checker reports a match.
C4_Witness ==
  /\ eq.step = "chk"
  /\ eq.reported = eq.a
  /\ eq.target = eq.b
  /\ eq.match = "True"
  /\ eq.same_key
  /\ eq.token = eq.a
  /\ eq.sel = Selected(eq.b)

ExistingFails ==
  \/ ~path_exists(fs0, args.name)
  \/ check_output(fs0.files[args.name]).status # "bytes"

\* C6: whichever way running the existing binary fails, the checker answers
\* False and the run goes on towards the download; the failure never ends
\* the process.
C6_CheckerIsAdvisory ==
  (res.check # "-" /\ ExistingFails) =>
    /\ res.check = "False"
    /\ Done => res.mkdir # "-"

\* Some stage of the run failed.
StageFailed ==
  \/ res.fetch = "fail"
  \/ res.fetch = "ok" /\ asset_map = <<>>
  \/ res.print = "raise"
  \/ res.select \in {"none", "raise"}
  \/ res.check = "raise"
  \/ res.mkdir = "raise"
  \/ res.download = "fail"
  \/ res.extract \in {"corrupt", "nomember"}
  \/ res.verify = "fail"

\* C7: exit status 0 only after -p printed the versions, after the checker
\* found the target installed, or after an install that the verifier ran
\* successfully; each of feed fetch failure, empty release set, unresolvable
\* token, download or extraction failure and verification failure ends with
\* status 1 and its own error line, not a traceback; no run with a failed
\* stage ends with status 0.
C7_ExitCodes ==
  Done =>
    /\ exit_code \in {0, 1}
    /\ exit_code = 0 =>
         \/ args.print /\ res.print = "ok" /\ asset_map # <<>>
         \/ res.check = "True" /\
              check_existing_govc(fs, args.name, version) = "True"
         \/ /\ res.extract = "ok"
            /\ res.verify = "ok"
            /\ fs.files[args.name].kind = "exec"
            /\ fs.files[args.name].beh # "exitfail"
    /\ res.fetch = "fail" => (exit_code = 1 /\ marker = "Error")
    /\ (res.fetch = "ok" /\ asset_map = <<>>) =>
         (exit_code = 1 /\ marker = "No govc releases found")
    /\ res.select = "none" =>
         (exit_code = 1 /\ marker = "No suitable govc release found")
    /\ (res.download = "fail" \/ res.extract \in {"corrupt", "nomember"}) =>
         (exit_code = 1 /\ marker = "Error during download or extraction")
    /\ res.verify = "fail" => (exit_code = 1 /\ marker = "Failed to run")
    /\ (res.extract = "ok" /\ check_output(fs.files[args.name]).status = "CalledProcessError")
         => exit_code = 1
    /\ StageFailed => exit_code = 1

\* C7 witness: an install whose verifier failed has ended with status 1.
C7_Witness ==
  Done /\ res.extract = "ok" /\ res.verify = "fail" /\ exit_code = 1

\* No asset of the feed has the platform filename.
NoMatchingAsset == \A i \in 1..Len(feed) : feed[i].name # DEFAULT_FILENAME

\* C8: when the feed was fetched and has no asset with the platform
\* filename, the run has ended with status 1 and "No govc releases found",
\* with no download request, no temporary file and the destination
\* directory untouched, whatever the flags.
C8_NoReleasesIsFatal ==
  (res.fetch = "ok" /\ NoMatchingAsset) =>
    /\ Done
    /\ exit_code = 1
    /\ marker = "No govc releases found"
    /\ ~requested
    /\ res.download = "-"
    /\ tmp = "absent"
    /\ fs = fs0

\* C8 witness: a feed with an asset of another platform only, and -p given.
C8_Witness ==
  /\ Done
  /\ res.fetch = "ok"
  /\ feed # <<>>
  /\ NoMatchingAsset
  /\ args.print
  /\ exit_code = 1

\* C9: when the archive has no member with base name "govc", extraction
\* raises "not found" with no file of the destination directory created or
\* replaced, the verifier does not run, and the run ends with status 1 and
\* the temporary archive removed.
C9_MissingMemberWritesNothing ==
  res.extract = "nomember" =>
    /\ pc \in {"finally", "done"}
    /\ exc = "RuntimeError: govc binary not found in tarball."
    /\ fs.files = fs0.files
    /\ fs.sub = fs0.sub
    /\ res.verify = "-"
    /\ Done => (exit_code = 1 /\ tmp = "absent")

\* C9 witness: such a run has ended, over an existing binary.
C9_Witness ==
  /\ Done
  /\ res.extract = "nomember"
  /\ fs0.files[args.name].kind # "absent"
  /\ tmp = "absent"

\* C10: a successful install changes <dir>/<name> and nothing else of the
\* destination directory: every other entry is as the run found it and no
\* subdirectory is left behind.
C10_OnlyFinalPathChanges ==
  (Done /\ res.extract = "ok" /\ exit_code = 0) =>
    /\ \A p \in Paths \ {args.name} : fs.files[p] = fs0.files[p]
    /\ fs.sub = fs0.sub

====
